---------------------------- MODULE Spec2Model ----------------------------
(***************************************************************************)
(* The virtualised List widget of widget/list.go as a state machine.       *)
(*                                                                         *)
(* Extents, offsets and sizes are float32 in the source; the model uses    *)
(* integers, on which floor and ceil of a quotient are exact.              *)
(* Item instances are numbered 1, 2, ... in creation order.                *)
(***************************************************************************)
EXTENDS Integers, Sequences, FiniteSets, TLC

(* ------------------------------ bounds -------------------------------- *)
\* largest value the external Length() callback returns
MaxCount == 3
\* largest viewport extent (list size along the scroll axis)
MaxSize == 2
\* largest extent given to SetItemMeasure
MaxMeasure == 3
\* cap on currentFocus (TypedKey increments it without bound when Length is nil)
MaxFocus == 3

(* ------------------------- program constants -------------------------- *)
\* the natural extent of the template item, item.MinSize() (list.go:104, 559)
ItemMin == 2
\* th.Size(theme.SizeNamePadding), the separator thickness (list.go:780)
Padding == 1
\* a nil callback (Length unset)
Nil == -1

VARIABLES
    Length,               \* value the Length callback returns, Nil when unset
    CreateItem,           \* TRUE when the CreateItem callback is set
    itemMin,              \* List.itemMin along the scroll axis
    padding,              \* theme padding
    size,                 \* List.Size() = scroller.Size() along the axis
    offset,               \* List.offset
    scrollerOffset,       \* List.scroller.Offset along the axis
    itemMeasures,         \* List.itemMeasures: override map
    selected,             \* List.selected
    currentFocus,         \* List.currentFocus
    visible,              \* listLayout.visible: sequence of [id, item]
    visibleItemMeasures,  \* listLayout.visibleItemMeasures
    minItem,              \* minItem returned by the last window computation
    off,                  \* off returned by the last window computation
    itemPool,             \* listLayout.itemPool: the idle instances
    nItems,               \* number of instances created for mounting so far
    separators,           \* len(listLayout.separators)
    lockW,                \* renderLock: the writer holding it, or "none"
    lockR,                \* renderLock: the readers holding it
    lockedCalls,          \* callbacks invoked while the caller held renderLock
    notes,                \* selection notifications of the latest operation
    status,               \* "run", or "panic" after a Go panic
    todo,                 \* per goroutine: the calls still to execute
    reent                 \* TRUE once an UpdateItem callback has re-entered the list

vars == <<Length, CreateItem, itemMin, padding, size, offset, scrollerOffset,
          itemMeasures, selected, currentFocus, visible, visibleItemMeasures,
          minItem, off, itemPool, nItems, separators, lockW, lockR,
          lockedCalls, notes, status, todo, reent>>

(* ----------------------------- arithmetic ----------------------------- *)
\* math.Floor of the quotient a/b, b > 0
Floor(a, b) == a \div b

\* math.Ceil of the quotient a/b, b > 0
Ceil(a, b) == -((-a) \div b)

Max(a, b) == IF a >= b THEN a ELSE b

Min(a, b) == IF a <= b THEN a ELSE b

RECURSIVE SumSeq(_)
SumSeq(q) == IF q = <<>> THEN 0 ELSE Head(q) + SumSeq(Tail(q))

Ids(vis) == [i \in 1..Len(vis) |-> vis[i].id]

Items(vis) == {vis[i].item : i \in 1..Len(vis)}

(* ------------------------ the override map ---------------------------- *)
\* the map is a function whose DOMAIN is the set of overridden ids
NoMeasures == [i \in {} |-> 0]

\* measure := itemMeasure; if m, ok := itemMeasures[i]; ok { measure = m }
Measure(im, default, i) == IF i \in DOMAIN im THEN im[i] ELSE default

(* ---------------------------- searchVisible --------------------------- *)
\* sort.Search(ln, f): bisection for the smallest index with f true,
\* 0-based; i and j are the bounds of the bisection
RECURSIVE SortSearch(_, _, _, _)
SortSearch(vis, id, i, j) ==
    IF i >= j THEN i
    ELSE LET h == (i + j) \div 2
         IN  IF ~(vis[h + 1].id >= id)
             THEN SortSearch(vis, id, h + 1, j)
             ELSE SortSearch(vis, id, i, h)

\* listLayout.searchVisible: [ok, item]
searchVisible(vis, id) ==
    LET ln  == Len(vis)
        idx == SortSearch(vis, id, 0, ln)
    IN  IF idx < ln /\ vis[idx + 1].id = id
        THEN [ok |-> TRUE, item |-> vis[idx + 1].item]
        ELSE [ok |-> FALSE, item |-> 0]

(* --------------------- calculateVisibleItemMeasures ------------------- *)
\* the uniform path, taken when the override map is empty
CalcUniform(itemMeasure, length, pad, listOffset, scrollerMeasure) ==
    LET padded == itemMeasure + pad
        off0   == Floor(listOffset, padded) * padded
        min0   == Floor(off0, padded)
        max0   == Ceil(off0 + scrollerMeasure, padded)
        min1   == IF min0 > length - 1 THEN length - 1 ELSE min0
        min2   == IF min1 < 0 THEN 0 ELSE min1
        off2   == IF min1 < 0 THEN 0 ELSE off0
        max1   == IF max0 > length - 1 THEN length - 1 ELSE max0
    IN  [off |-> off2, minItem |-> min2,
         measures |-> [i \in 1..(max1 - min2 + 1) |-> itemMeasure]]

\* the override-aware loop without the isVisible guard on the append
RECURSIVE CalcScanAll(_, _, _, _, _, _, _, _)
CalcScanAll(i, acc, r, im, itemMeasure, length, pad, win) ==
    IF i >= length THEN r
    ELSE LET measure == Measure(im, itemMeasure, i)
             r1 == IF acc <= win.lo - measure - pad THEN r
                   ELSE IF acc <= win.lo
                        THEN [r EXCEPT !.minItem = i, !.off = acc, !.isVisible = TRUE]
                        ELSE r
         IN  IF acc >= win.lo + win.ext THEN r1
             ELSE CalcScanAll(i + 1, acc + measure + pad,
                              [r1 EXCEPT !.measures = Append(@, measure)],
                              im, itemMeasure, length, pad, win)

\* the loop of the override-aware path from index i on; acc is the running
\* offset, r the results so far and the isVisible flag
RECURSIVE CalcScan(_, _, _, _, _, _, _, _)
CalcScan(i, acc, r, im, itemMeasure, length, pad, win) ==
    IF i >= length THEN r
    ELSE LET measure == Measure(im, itemMeasure, i)
             r1 == IF acc <= win.lo - measure - pad THEN r
                   ELSE IF acc <= win.lo
                        THEN [r EXCEPT !.minItem = i, !.off = acc, !.isVisible = TRUE]
                        ELSE r
         IN  IF acc >= win.lo + win.ext THEN r1
             ELSE CalcScan(i + 1, acc + measure + pad,
                           IF r1.isVisible
                           THEN [r1 EXCEPT !.measures = Append(@, measure)]
                           ELSE r1,
                           im, itemMeasure, length, pad, win)

\* listLayout.calculateVisibleItemMeasures: [off, minItem, measures], with
\* prev the slice left by the previous computation
calculateVisibleItemMeasures(itemMeasure, length, pad, listOffset, scrollerMeasure, im, prev) ==
    IF scrollerMeasure <= 0
    THEN [off |-> 0, minItem |-> 0, measures |-> prev]
    ELSE IF DOMAIN im = {}
         THEN CalcUniform(itemMeasure, length, pad, listOffset, scrollerMeasure)
         ELSE LET r == CalcScan(0, 0,
                                [off |-> 0, minItem |-> 0, measures |-> <<>>,
                                 isVisible |-> FALSE],
                                im, itemMeasure, length, pad,
                                [lo |-> listOffset, ext |-> scrollerMeasure])
              IN  [off |-> r.off, minItem |-> r.minItem, measures |-> r.measures]

(* --------------------------- the program state ------------------------ *)
Threads == {"main", "bg"}

\* the state as one record, for the operators that model the code
Cur ==
    [Length |-> Length, CreateItem |-> CreateItem, itemMin |-> itemMin,
     padding |-> padding, size |-> size, offset |-> offset,
     scrollerOffset |-> scrollerOffset, itemMeasures |-> itemMeasures,
     selected |-> selected, currentFocus |-> currentFocus, visible |-> visible,
     visibleItemMeasures |-> visibleItemMeasures, minItem |-> minItem,
     off |-> off, itemPool |-> itemPool, nItems |-> nItems,
     separators |-> separators, lockW |-> lockW, lockR |-> lockR,
     lockedCalls |-> lockedCalls, notes |-> notes, status |-> status,
     reent |-> reent]

Install(s) ==
    /\ Length' = s.Length
    /\ CreateItem' = s.CreateItem
    /\ itemMin' = s.itemMin
    /\ padding' = s.padding
    /\ size' = s.size
    /\ offset' = s.offset
    /\ scrollerOffset' = s.scrollerOffset
    /\ itemMeasures' = s.itemMeasures
    /\ selected' = s.selected
    /\ currentFocus' = s.currentFocus
    /\ visible' = s.visible
    /\ visibleItemMeasures' = s.visibleItemMeasures
    /\ minItem' = s.minItem
    /\ off' = s.off
    /\ itemPool' = s.itemPool
    /\ nItems' = s.nItems
    /\ separators' = s.separators
    /\ lockW' = s.lockW
    /\ lockR' = s.lockR
    /\ lockedCalls' = s.lockedCalls
    /\ notes' = s.notes
    /\ status' = s.status
    /\ reent' = s.reent

\* a call still to execute: the function and its two arguments
Op(name, a, b) == [op |-> name, a |-> a, b |-> b]

\* what executing a call leaves: the state and the calls it makes, in order
Ret(s, push) == [s |-> s, push |-> push]

\* a callback invoked by goroutine t, noted when t holds renderLock
Call(s, t, name) ==
    IF s.lockW = t \/ t \in s.lockR
    THEN [s EXCEPT !.lockedCalls = @ \cup {name}]
    ELSE s

\* length := 0; if f := l.Length; f != nil { length = f() }
LengthOf(s) == IF s.Length = Nil THEN 0 ELSE s.Length

CallLength(s, t) == IF s.Length = Nil THEN s ELSE Call(s, t, "Length")

(* ------------------------------ contentMinSize ------------------------ *)
\* List.contentMinSize along the scroll axis
contentMinSize(s) ==
    IF s.Length = Nil THEN 0
    ELSE LET items == s.Length
             im    == s.itemMeasures
         IN  IF DOMAIN im = {}
             THEN (s.itemMin + s.padding) * items - s.padding
             ELSE LET custom  == {id \in DOMAIN im : id < items}
                      measure == SumSeq([k \in 1..Cardinality(custom) |->
                                   im[CHOOSE id \in custom :
                                        Cardinality({j \in custom : j < id}) = k - 1]])
                                 + (items - Cardinality(custom)) * s.itemMin
                  IN  measure + s.padding * (items - 1)

(* ------------------------------- the item pool ------------------------ *)
\* syncPool.Obtain: an idle instance, 0 when there is none. The pool is
\* unordered: it hands out the instance ord while that one is idle
Obtain(pool, ord) ==
    IF pool = {} THEN 0
    ELSE IF ord \in pool THEN ord
         ELSE CHOOSE i \in pool : \A j \in pool : i <= j

\* getItem that goes to the factory without asking the pool
getItemNoPool(s, t, ord) ==
    IF s.CreateItem
    THEN [s |-> [Call(s, t, "CreateItem") EXCEPT !.nItems = @ + 1], item |-> s.nItems + 1]
    ELSE [s |-> [s EXCEPT !.status = "panic"], item |-> 0]

\* listLayout.getItem: [s, item]; the type assertion on a nil interface panics
getItem(s, t, ord) ==
    LET item == Obtain(s.itemPool, ord)
    IN  IF item # 0
        THEN [s |-> [s EXCEPT !.itemPool = @ \ {item}], item |-> item]
        ELSE IF s.CreateItem
             THEN [s |-> [Call(s, t, "CreateItem") EXCEPT !.nItems = @ + 1],
                   item |-> s.nItems + 1]
             ELSE [s |-> [s EXCEPT !.status = "panic"], item |-> 0]

(* ------------------------------- updateList --------------------------- *)
\* the loop with no reuse of the instances of wasVisible
RECURSIVE BuildFromFresh(_, _, _, _, _)
BuildFromFresh(s, t, k, wasVisible, ord) ==
    IF k > Len(s.visibleItemMeasures) \/ s.status # "run" THEN s
    ELSE LET item == (k - 1) + s.minItem
             g    == getItem(s, t, ord)
         IN  IF g.s.status # "run" THEN g.s
             ELSE BuildFromFresh([g.s EXCEPT !.visible =
                                     Append(@, [id |-> item, item |-> g.item])],
                                 t, k + 1, wasVisible, ord)

\* the loop over visibleItemMeasures (lines 817-841) from position k on,
\* appending to s.visible
RECURSIVE BuildFrom(_, _, _, _, _)
BuildFrom(s, t, k, wasVisible, ord) ==
    IF k > Len(s.visibleItemMeasures) \/ s.status # "run" THEN s
    ELSE LET item == (k - 1) + s.minItem
             c    == searchVisible(wasVisible, item)
             g    == IF c.ok THEN [s |-> s, item |-> c.item] ELSE getItem(s, t, ord)
         IN  IF g.s.status # "run" THEN g.s
             ELSE BuildFrom([g.s EXCEPT !.visible =
                                Append(@, [id |-> item, item |-> g.item])],
                            t, k + 1, wasVisible, ord)

\* the loop without l.visible = l.visible[:0] before it
BuildVisibleKeep(s, t, wasVisible, ord) == BuildFrom(s, t, 1, wasVisible, ord)

\* l.visible = l.visible[:0], then the loop
BuildVisible(s, t, wasVisible, ord) ==
    BuildFrom([s EXCEPT !.visible = <<>>], t, 1, wasVisible, ord)

\* no instance goes back to the pool
ReleaseNone(s, wasVisible) == s

\* every instance of wasVisible goes back to the pool
ReleaseAll(s, wasVisible) == [s EXCEPT !.itemPool = @ \cup Items(wasVisible)]

\* lines 845-849: the instances of wasVisible whose id left the window go
\* back to the pool
ReleaseGone(s, wasVisible) ==
    LET gone == {k \in 1..Len(wasVisible) : ~searchVisible(s.visible, wasVisible[k].id).ok}
    IN  [s EXCEPT !.itemPool = @ \cup {wasVisible[k].item : k \in gone}]  \* Release

\* listLayout.updateSeparators: the new len(l.separators)
updateSeparators(s) ==
    LET lenChildren == Len(s.visible)
        lenSep      == s.separators
    IN  IF lenChildren > 1
        THEN IF lenSep > lenChildren THEN lenChildren ELSE Max(lenSep, lenChildren)
        ELSE 0

\* a setupListItem call for every entry, whatever newOnly says
SetupsAll(vis, wasVisible, newOnly) ==
    [k \in 1..Len(vis) |-> Op("setupListItem", vis[k].item, vis[k].id)]

\* lines 867-877: the setupListItem calls after the lock is released
Setups(vis, wasVisible, newOnly) ==
    LET keep == {k \in 1..Len(vis) : ~newOnly \/ ~searchVisible(wasVisible, vis[k].id).ok}
        RECURSIVE From(_)
        From(k) == IF k > Len(vis) THEN <<>>
                   ELSE IF k \in keep
                        THEN <<Op("setupListItem", vis[k].item, vis[k].id)>> \o From(k + 1)
                        ELSE From(k + 1)
    IN  From(1)

\* updateList whose early return leaves without Unlock
updateListLockedNoUnlock(s, t, newOnly, ord) ==
    LET length     == LengthOf(s)
        wasVisible == s.visible
        r  == calculateVisibleItemMeasures(s.itemMin, length, s.padding, s.offset,
                                           s.size, s.itemMeasures, s.visibleItemMeasures)
        s1 == [CallLength(s, t) EXCEPT !.visibleItemMeasures = r.measures,
                                       !.minItem = r.minItem, !.off = r.off]
    IN  IF Len(r.measures) = 0 /\ length > 0
        THEN Ret(s1, <<>>)
        ELSE LET s2 == BuildVisible(s1, t, wasVisible, ord)
             IN  IF s2.status # "run" THEN Ret(s2, <<>>)
                 ELSE LET s3 == ReleaseGone(s2, wasVisible)
                          s4 == [s3 EXCEPT !.separators = updateSeparators(s3),
                                           !.lockW = "none"]
                      IN  Ret(s4, Setups(s4.visible, wasVisible, newOnly))

\* listLayout.updateList from the line after renderLock.Lock() to the
\* Unlock: lines 782-865, and the calls of lines 867-877
updateListLocked(s, t, newOnly, ord) ==
    LET length     == LengthOf(s)
        wasVisible == s.visible
        r  == calculateVisibleItemMeasures(s.itemMin, length, s.padding, s.offset,
                                           s.size, s.itemMeasures, s.visibleItemMeasures)
        s1 == [CallLength(s, t) EXCEPT !.visibleItemMeasures = r.measures,
                                       !.minItem = r.minItem, !.off = r.off]
    IN  IF Len(r.measures) = 0 /\ length > 0
        THEN Ret([s1 EXCEPT !.lockW = "none"], <<>>)
        ELSE LET s2 == BuildVisible(s1, t, wasVisible, ord)
             IN  IF s2.status # "run" THEN Ret(s2, <<>>)
                 ELSE LET s3 == ReleaseGone(s2, wasVisible)
                          s4 == [s3 EXCEPT !.separators = updateSeparators(s3),
                                           !.lockW = "none"]
                      IN  Ret(s4, Setups(s4.visible, wasVisible, newOnly))

(* ------------------------- the other functions ------------------------ *)
\* listLayout.setupListItem; re >= 0 when the UpdateItem callback calls
\* RefreshItem(re), re = Nil when it does not
setupListItem(s, t, item, id, re) ==
    LET s1 == Call(s, t, "UpdateItem")
    IN  IF re = Nil THEN Ret(s1, <<>>)
        ELSE Ret([s1 EXCEPT !.reent = TRUE], <<Op("RefreshItem", re, 0)>>)

\* listLayout.offsetUpdated
offsetUpdated(s, pos) ==
    IF s.offset = pos THEN Ret(s, <<>>)
    ELSE Ret([s EXCEPT !.offset = pos], <<Op("updateList", 0, TRUE)>>)

\* the loop of List.scrollTo over the items before id: [axis, last]
RECURSIVE ScrollAxis(_, _, _, _)
ScrollAxis(s, id, i, r) ==
    IF i >= id THEN r
    ELSE LET height == Measure(s.itemMeasures, s.itemMin, i)
         IN  ScrollAxis(s, id, i + 1,
                        [axis |-> r.axis + height + s.padding, last |-> height])

\* List.scrollTo
scrollTo(s, id) ==
    LET r == IF DOMAIN s.itemMeasures = {}
             THEN [axis |-> id * s.itemMin + id * s.padding, last |-> s.itemMin]
             ELSE ScrollAxis(s, id, 0, [axis |-> 0, last |-> s.itemMin])
        o == IF r.axis < s.scrollerOffset THEN r.axis
             ELSE IF r.axis + s.itemMin > s.scrollerOffset + s.size
                  THEN r.axis + r.last - s.size
                  ELSE s.scrollerOffset
    IN  Ret([s EXCEPT !.scrollerOffset = o], <<Op("offsetUpdated", o, 0)>>)

\* List.Resize
Resize(s, sz) ==
    Ret([s EXCEPT !.size = sz],
        <<Op("offsetUpdated", s.scrollerOffset, 0), Op("updateList", 0, TRUE)>>)

\* listRenderer.Refresh, which List.Refresh runs: the template is measured
\* again and the window recomputed in full
Refresh(s, t) ==
    IF s.CreateItem
    THEN Ret([Call(s, t, "CreateItem") EXCEPT !.itemMin = ItemMin],
             <<Op("updateList", 0, FALSE)>>)
    ELSE Ret(s, <<Op("updateList", 0, FALSE)>>)

\* List.RefreshItem: the widget's Refresh, then the search under the read lock
RefreshItem(s, id) == Ret(s, <<Op("Refresh", 0, 0), Op("RLock", id, 0)>>)

\* lines 151-155 of RefreshItem, the read lock held
RefreshItemLocked(s, t, id) ==
    LET c  == searchVisible(s.visible, id)
        s1 == [s EXCEPT !.lockR = @ \ {t}]
    IN  IF c.ok THEN Ret(s1, <<Op("setupListItem", c.item, id)>>)
        ELSE Ret(s1, <<>>)

\* List.SetItemMeasure; a missing key reads as 0
SetItemMeasure(s, id, measure) ==
    LET refresh == (IF id \in DOMAIN s.itemMeasures THEN s.itemMeasures[id] ELSE 0) # measure
        im == [i \in DOMAIN s.itemMeasures \cup {id} |->
                 IF i = id THEN measure ELSE s.itemMeasures[i]]
    IN  Ret([s EXCEPT !.itemMeasures = im],
            IF refresh THEN <<Op("RefreshItem", id, 0)>> ELSE <<>>)

\* Select that notifies the new index before the old one
SelectSwapped(s, t, id) ==
    IF Len(s.selected) > 0 /\ id = s.selected[1] THEN Ret(s, <<>>)
    ELSE LET s1 == CallLength(s, t)
         IN  IF id < 0 \/ id >= LengthOf(s) THEN Ret(s1, <<>>)
             ELSE Ret([s1 EXCEPT !.selected = <<id>>],
                      <<Op("scrollTo", id, 0), Op("Refresh", 0, 0)>>
                      \o <<Op("OnSelected", id, 0)>>
                      \o (IF Len(s.selected) > 0
                          THEN <<Op("OnUnselected", s.selected[1], 0)>> ELSE <<>>))

\* List.Select; the deferred notifications run last
Select(s, t, id) ==
    IF Len(s.selected) > 0 /\ id = s.selected[1] THEN Ret(s, <<>>)
    ELSE LET s1 == CallLength(s, t)
         IN  IF id < 0 \/ id >= LengthOf(s) THEN Ret(s1, <<>>)
             ELSE Ret([s1 EXCEPT !.selected = <<id>>],
                      <<Op("scrollTo", id, 0), Op("Refresh", 0, 0)>>
                      \o (IF Len(s.selected) > 0
                          THEN <<Op("OnUnselected", s.selected[1], 0)>> ELSE <<>>)
                      \o <<Op("OnSelected", id, 0)>>)

\* List.Unselect
Unselect(s, id) ==
    IF Len(s.selected) = 0 \/ s.selected[1] # id THEN Ret(s, <<>>)
    ELSE Ret([s EXCEPT !.selected = <<>>],
             <<Op("Refresh", 0, 0), Op("OnUnselected", id, 0)>>)

\* List.UnselectAll
UnselectAll(s) ==
    IF Len(s.selected) = 0 THEN Ret(s, <<>>)
    ELSE Ret([s EXCEPT !.selected = <<>>],
             <<Op("Refresh", 0, 0)>>
             \o [k \in 1..Len(s.selected) |-> Op("OnUnselected", s.selected[k], 0)])

\* ScrollTo without the range check
ScrollToUnchecked(s, t, id) ==
    Ret(CallLength(s, t), <<Op("scrollTo", id, 0), Op("Refresh", 0, 0)>>)

\* List.ScrollTo
ScrollTo(s, t, id) ==
    LET s1 == CallLength(s, t)
    IN  IF id < 0 \/ id >= LengthOf(s) THEN Ret(s1, <<>>)
        ELSE Ret(s1, <<Op("scrollTo", id, 0), Op("Refresh", 0, 0)>>)

\* List.ScrollToEnd
ScrollToEnd(s, t) ==
    LET length == LengthOf(s)
    IN  Ret(CallLength(s, t),
            <<Op("scrollTo", IF length > 0 THEN length - 1 ELSE length, 0),
              Op("Refresh", 0, 0)>>)

\* List.ScrollToStart
ScrollToStart(s) == Ret(s, <<Op("scrollTo", 0, 0), Op("Refresh", 0, 0)>>)

\* List.ScrollToOffset
ScrollToOffset(s, t, o) ==
    LET o1 == IF o < 0 THEN 0 ELSE o
        contentMeasure == contentMinSize(s)
        s1 == CallLength(s, t)
    IN  IF s.size >= contentMeasure THEN Ret(s1, <<>>)
        ELSE LET o2 == IF o1 > contentMeasure THEN contentMeasure ELSE o1
             IN  Ret([s1 EXCEPT !.scrollerOffset = o2],
                     <<Op("offsetUpdated", o2, 0), Op("Refresh", 0, 0)>>)

\* List.TypedKey, fyne.KeyDown
TypedKeyDown(s, t) ==
    IF s.Length # Nil /\ s.currentFocus >= s.Length - 1 THEN Ret(CallLength(s, t), <<>>)
    ELSE Ret(CallLength(s, t),
             <<Op("RefreshItem", s.currentFocus, 0), Op("setFocus", s.currentFocus + 1, 0),
               Op("scrollTo", s.currentFocus + 1, 0),
               Op("RefreshItem", s.currentFocus + 1, 0)>>)

\* List.TypedKey, fyne.KeyUp
TypedKeyUp(s) ==
    IF s.currentFocus <= 0 THEN Ret(s, <<>>)
    ELSE Ret(s,
             <<Op("RefreshItem", s.currentFocus, 0), Op("setFocus", s.currentFocus - 1, 0),
               Op("scrollTo", s.currentFocus - 1, 0),
               Op("RefreshItem", s.currentFocus - 1, 0)>>)

\* the OnSelected and OnUnselected callbacks
Notify(s, t, name, id) ==
    Ret([Call(s, t, name) EXCEPT !.notes = Append(@, <<name, id>>)], <<>>)

(* ------------------------------ execution ----------------------------- *)
\* whether goroutine t can execute call m now: Lock and RLock block
CanExec(s, t, m) ==
    CASE m.op = "updateList" -> s.lockW = "none" /\ s.lockR = {}
      [] m.op = "RLock"      -> s.lockW = "none"
      [] OTHER               -> TRUE

\* goroutine t executes call m up to the calls m makes; o.ord is the idle
\* instance the pool prefers and o.re is what the UpdateItem callback does
Exec(s, t, m, o) ==
    CASE m.op = "updateList"       -> Ret([s EXCEPT !.lockW = t], <<Op("updateListLocked", 0, m.b)>>)
      [] m.op = "updateListLocked" -> updateListLocked(s, t, m.b, o.ord)
      [] m.op = "setupListItem"    -> setupListItem(s, t, m.a, m.b, o.re)
      [] m.op = "offsetUpdated"    -> offsetUpdated(s, m.a)
      [] m.op = "scrollTo"         -> scrollTo(s, m.a)
      [] m.op = "Resize"           -> Resize(s, m.a)
      [] m.op = "Scrolled"         -> Ret([s EXCEPT !.scrollerOffset = m.a], <<Op("offsetUpdated", m.a, 0)>>)
      [] m.op = "Layout"           -> Ret(s, <<Op("updateList", 0, TRUE)>>)
      [] m.op = "Refresh"          -> Refresh(s, t)
      [] m.op = "RefreshItem"      -> RefreshItem(s, m.a)
      [] m.op = "RLock"            -> Ret([s EXCEPT !.lockR = @ \cup {t}], <<Op("RefreshItemLocked", m.a, 0)>>)
      [] m.op = "RefreshItemLocked" -> RefreshItemLocked(s, t, m.a)
      [] m.op = "SetItemMeasure"   -> SetItemMeasure(s, m.a, m.b)
      [] m.op = "Select"           -> Select(s, t, m.a)
      [] m.op = "Unselect"         -> Unselect(s, m.a)
      [] m.op = "UnselectAll"      -> UnselectAll(s)
      [] m.op = "ScrollTo"         -> ScrollTo(s, t, m.a)
      [] m.op = "ScrollToEnd"      -> ScrollToEnd(s, t)
      [] m.op = "ScrollToStart"    -> ScrollToStart(s)
      [] m.op = "ScrollToOffset"   -> ScrollToOffset(s, t, m.a)
      [] m.op = "TypedKeySpace"    -> Ret(s, <<Op("Select", s.currentFocus, 0)>>)
      [] m.op = "TypedKeyDown"     -> TypedKeyDown(s, t)
      [] m.op = "TypedKeyUp"       -> TypedKeyUp(s)
      [] m.op = "setFocus"         -> Ret([s EXCEPT !.currentFocus = m.a], <<>>)
      [] m.op = "OnSelected"       -> Notify(s, t, "OnSelected", m.a)
      [] m.op = "OnUnselected"     -> Notify(s, t, "OnUnselected", m.a)

\* goroutine t runs the calls td to completion, nothing else running
RECURSIVE RunAll(_, _, _, _)
RunAll(s, t, td, ord) ==
    IF td = <<>> \/ s.status # "run" THEN s
    ELSE IF ~CanExec(s, t, Head(td)) THEN [s EXCEPT !.status = "deadlock"]
         ELSE LET r == Exec(s, t, Head(td), [ord |-> ord, re |-> Nil])
              IN  RunAll(r.s, t, r.push \o Tail(td), ord)

(* --------------------------- the specification ------------------------ *)
\* the viewport extents the list is resized to
Sizes == {0, MaxSize}

\* the ids the operations are called with: the valid ones and one on each side
CallIds == {-1, 0, MaxCount - 1, MaxCount}

\* the extents SetItemMeasure is called with
Measures == {0, ItemMin, MaxMeasure}

\* the values the Length callback returns
Counts == {0, MaxCount}

\* the ids SetItemMeasure is called with
OverrideIds == {0, MaxCount}

\* the instance an unordered pool may prefer
Prefer(pool) == IF pool = {} THEN {0} ELSE pool

Idle == [t \in Threads |-> <<>>]

\* the state CreateRenderer leaves: nothing shown, the list not yet sized
Init ==
    /\ Length \in {Nil} \cup Counts
    /\ CreateItem \in BOOLEAN
    /\ itemMin = IF CreateItem THEN ItemMin ELSE 0
    /\ padding = Padding
    /\ size = 0
    /\ offset = 0
    /\ scrollerOffset = 0
    /\ itemMeasures = NoMeasures
    /\ selected = <<>>
    /\ currentFocus = 0
    /\ visible = <<>>
    /\ visibleItemMeasures = <<>>
    /\ minItem = 0
    /\ off = 0
    /\ itemPool = {}
    /\ nItems = 0
    /\ separators = 0
    /\ lockW = "none"
    /\ lockR = {}
    /\ lockedCalls = {}
    /\ notes = <<>>
    /\ status = "run"
    /\ todo = Idle
    /\ reent = FALSE

\* the UI goroutine runs one operation of the widget to its end
Run(m) ==
    /\ status = "run"
    /\ todo = Idle
    /\ \E ord \in Prefer(itemPool) :
          Install(RunAll([Cur EXCEPT !.notes = <<>>], "main", <<m>>, ord))
    /\ UNCHANGED todo

\* the data behind the Length callback changes
SetLength ==
    /\ status = "run"
    /\ todo = Idle
    /\ Length # Nil
    /\ \E n \in Counts : Length' = n
    /\ UNCHANGED <<CreateItem, itemMin, padding, size, offset, scrollerOffset,
                   itemMeasures, selected, currentFocus, visible, visibleItemMeasures,
                   minItem, off, itemPool, nItems, separators, lockW, lockR,
                   lockedCalls, notes, status, todo, reent>>

\* the scroller reports an offset within its content
CallScrolled == \E o \in 0..Max(0, contentMinSize(Cur) - size) : Run(Op("Scrolled", o, 0))

CallResize == \E sz \in Sizes : Run(Op("Resize", sz, 0))

CallLayout == Run(Op("Layout", 0, 0))

CallRefresh == Run(Op("Refresh", 0, 0))

CallRefreshItem == \E id \in CallIds : Run(Op("RefreshItem", id, 0))

CallSetItemMeasure ==
    \E id \in OverrideIds, m \in Measures : Run(Op("SetItemMeasure", id, m))

CallSelect == \E id \in CallIds : Run(Op("Select", id, 0))

CallUnselect == \E id \in CallIds : Run(Op("Unselect", id, 0))

CallUnselectAll == Run(Op("UnselectAll", 0, 0))

CallScrollTo == \E id \in CallIds : Run(Op("ScrollTo", id, 0))

CallScrollToEnd == Run(Op("ScrollToEnd", 0, 0))

CallScrollToStart == Run(Op("ScrollToStart", 0, 0))

CallScrollToOffset ==
    \E o \in {-1, ItemMin + Padding, contentMinSize(Cur) - 1, contentMinSize(Cur) + 1} :
       Run(Op("ScrollToOffset", o, 0))

CallTypedKeySpace == Run(Op("TypedKeySpace", 0, 0))

CallTypedKeyDown == currentFocus < MaxFocus /\ Run(Op("TypedKeyDown", 0, 0))

CallTypedKeyUp == Run(Op("TypedKeyUp", 0, 0))

\* the operations that move and size the window
Next ==
    \/ SetLength
    \/ CallScrolled
    \/ CallResize
    \/ CallLayout
    \/ CallRefresh
    \/ CallRefreshItem
    \/ CallSetItemMeasure
    \/ CallScrollTo
    \/ CallScrollToEnd
    \/ CallScrollToStart
    \/ CallScrollToOffset

Spec == Init /\ [][Next]_vars

\* the operations that recompute the window without moving the scroller
\* themselves
NextPass ==
    \/ SetLength
    \/ CallScrolled
    \/ CallResize
    \/ CallLayout
    \/ CallRefresh
    \/ CallSetItemMeasure

SpecPass == Init /\ [][NextPass]_vars

\* the operations on the selection and the focus, on a list without overrides
NextSel ==
    \/ SetLength
    \/ CallScrolled
    \/ CallResize
    \/ CallSelect
    \/ CallUnselect
    \/ CallUnselectAll
    \/ CallScrollTo
    \/ CallTypedKeySpace
    \/ CallTypedKeyDown
    \/ CallTypedKeyUp

SpecSel == Init /\ [][NextSel]_vars

(* ---------------------- goroutines, call by call ---------------------- *)
\* what the UI goroutine starts, and what a goroutine beside it starts
Starts(t) ==
    IF t = "main"
    THEN {Op("Resize", sz, 0) : sz \in Sizes}
         \cup {Op("Scrolled", o, 0) : o \in {0, Max(0, contentMinSize(Cur) - size)}}
         \cup {Op("Layout", 0, 0)}
    ELSE {Op("RefreshItem", id, 0) : id \in {0, MaxCount - 1}}

\* what an UpdateItem callback may do: return at once, or call RefreshItem on
\* index 0 first. One callback does so while the goroutines are busy: the
\* callbacks of the refresh it starts return at once
Reentries == IF reent THEN {Nil} ELSE {Nil, 0}

\* goroutine t, idle, enters an operation
Start(t) ==
    /\ status = "run"
    /\ todo[t] = <<>>
    /\ \E m \in Starts(t) : todo' = [todo EXCEPT ![t] = <<m>>]
    /\ reent' = IF todo = Idle THEN FALSE ELSE reent
    /\ UNCHANGED <<Length, CreateItem, itemMin, padding, size, offset, scrollerOffset,
                   itemMeasures, selected, currentFocus, visible, visibleItemMeasures,
                   minItem, off, itemPool, nItems, separators, lockW, lockR,
                   lockedCalls, notes, status>>

\* goroutine t executes its next call
Step(t) ==
    /\ status = "run"
    /\ todo[t] # <<>>
    /\ CanExec(Cur, t, Head(todo[t]))
    /\ \E ord \in Prefer(itemPool), re \in Reentries :
          LET r == Exec(Cur, t, Head(todo[t]), [ord |-> ord, re |-> re])
          IN  /\ Install(r.s)
              /\ todo' = [todo EXCEPT ![t] = r.push \o Tail(@)]

NextConc ==
    \/ \E t \in Threads : Start(t)
    \/ \E t \in Threads : Step(t)

SpecConc == Init /\ [][NextConc]_vars

(* ------------------- the window calculator on its own ----------------- *)
\* the large list of the scenarios
Scenario == [count |-> 100, extent |-> 20, viewport |-> 100, separator |-> 2]

\* the override maps the calculator is given: at most two entries
CalcMaps ==
    UNION {[D -> Measures] : D \in {D \in SUBSET (0..MaxCount) : Cardinality(D) <= 2}}

\* the inputs the calculator is given: every small list, and the large one
CalcInputs ==
    [count : 0..MaxCount, extent : {ItemMin}, separator : {Padding},
     viewport : 0..(MaxSize + 1), offset : -1..(MaxCount * (MaxMeasure + Padding)),
     im : CalcMaps]
    \cup
    [count : {Scenario.count}, extent : {Scenario.extent},
     separator : {Scenario.separator}, viewport : {Scenario.viewport},
     offset : {0, Scenario.extent \div 2, Scenario.extent + 1,
               2 * (Scenario.extent + Scenario.separator)},
     im : {NoMeasures} \cup [{3} -> {Scenario.extent, 50}]]
    \cup
    [count : {Scenario.count}, extent : {Scenario.extent},
     separator : {Scenario.separator}, viewport : {Scenario.viewport},
     offset : {Scenario.count * Scenario.extent}, im : {NoMeasures}]

CalcCall == Op("calculateVisibleItemMeasures", 0, 0)

\* a list with the inputs in place and the call to the calculator pending
InitCalc ==
    \E in \in CalcInputs :
       /\ Length = in.count
       /\ CreateItem = TRUE
       /\ itemMin = in.extent
       /\ padding = in.separator
       /\ size = in.viewport
       /\ offset = in.offset
       /\ scrollerOffset = in.offset
       /\ itemMeasures = in.im
       /\ selected = <<>>
       /\ currentFocus = 0
       /\ visible = <<>>
       /\ visibleItemMeasures = <<>>
       /\ minItem = 0
       /\ off = 0
       /\ itemPool = {}
       /\ nItems = 0
       /\ separators = 0
       /\ lockW = "none"
       /\ lockR = {}
       /\ lockedCalls = {}
       /\ notes = <<>>
       /\ status = "run"
       /\ todo = [Idle EXCEPT !["main"] = <<CalcCall>>]
       /\ reent = FALSE

\* the call returns: off, minItem and the slice it filled
Calculate ==
    /\ todo["main"] = <<CalcCall>>
    /\ LET r == calculateVisibleItemMeasures(itemMin, Length, padding, offset, size,
                                             itemMeasures, visibleItemMeasures)
       IN  /\ visibleItemMeasures' = r.measures
           /\ minItem' = r.minItem
           /\ off' = r.off
    /\ todo' = Idle
    /\ UNCHANGED <<Length, CreateItem, itemMin, padding, size, offset, scrollerOffset,
                   itemMeasures, selected, currentFocus, visible, itemPool, nItems,
                   separators, lockW, lockR, lockedCalls, notes, status, reent>>

NextCalc == Calculate

SpecCalc == InitCalc /\ [][NextCalc]_vars

\* the calculator has returned
Calculated == todo = Idle

(* ------------------------ what the claims speak of -------------------- *)
\* the effective extent of item i: its override, else the default
EffectiveExtent(i) == IF i \in DOMAIN itemMeasures THEN itemMeasures[i] ELSE itemMin

\* the start offset of item i: the extents and separators before it, as i
\* default extents and what the overrides before i add to them
RECURSIVE Excess(_)
Excess(D) ==
    IF D = {} THEN 0
    ELSE LET j == CHOOSE j \in D : TRUE
         IN  (itemMeasures[j] - itemMin) + Excess(D \ {j})

StartOffset(i) ==
    i * (itemMin + padding) + Excess({j \in DOMAIN itemMeasures : 0 <= j /\ j < i})

\* the aggregate extent of count items, separators between them only
AggregateExtent(count) == IF count <= 0 THEN 0 ELSE StartOffset(count) - padding

\* item i's extent range holds the offset o
Holds(i, o) == StartOffset(i) <= o /\ o < StartOffset(i + 1)

\* the last index of the computed window
LastVisible == minItem + Len(visibleItemMeasures) - 1

(* C3: for count > 0, viewport > 0 and a scroll offset within the content,
   on the uniform and on the override-aware path, the calculator returns a
   contiguous index range (the k-th extent is the effective extent of index
   minItem + k - 1) that starts at the smallest index whose extent range
   [start, start + extent + separator) holds the offset, and whose extents
   and separators add up to the viewport extent or more unless the range
   ends at count - 1. *)
C3_WindowCalculator ==
    (Calculated /\ Length > 0 /\ size > 0 /\ offset \in 0..AggregateExtent(Length))
    => /\ Len(visibleItemMeasures) > 0
       /\ minItem \in 0..(Length - 1)
       /\ Holds(minItem, offset)
       /\ \A i \in 0..(Length - 1) : Holds(i, offset) => minItem <= i
       /\ LastVisible <= Length - 1
       /\ \A k \in 1..Len(visibleItemMeasures) :
             visibleItemMeasures[k] = EffectiveExtent(minItem + k - 1)
       /\ \/ SumSeq(visibleItemMeasures) + padding * Len(visibleItemMeasures) >= size
          \/ LastVisible = Length - 1

\* the override-aware path returned a window that starts after item 0 and ends
\* before the last item
C3_Witness ==
    /\ Calculated /\ Length > 0 /\ size > 0 /\ offset \in 0..AggregateExtent(Length)
    /\ DOMAIN itemMeasures # {}
    /\ minItem > 0
    /\ LastVisible < Length - 1
    /\ Len(visibleItemMeasures) > 1

\* the smallest number of items, at most count, whose extents and the
\* separators between them cover the viewport
RECURSIVE Fit(_, _)
Fit(k, count) ==
    IF k >= count \/ k * itemMin + (k - 1) * padding >= size THEN k ELSE Fit(k + 1, count)

(* C4: with uniform sizing and scroll offset 0 the window is exactly the
   indices 0..k-1, k the smallest count with k*extent + (k-1)*separator >=
   viewport, capped at count: 0..4 for count 100, extent 20, viewport 100,
   separator 2. *)
C4_InitialWindow ==
    (Calculated /\ DOMAIN itemMeasures = {} /\ offset = 0 /\ size > 0 /\ Length > 0)
    => /\ minItem = 0
       /\ Len(visibleItemMeasures) = Fit(1, Length)

(* ------------------- the claims on the Visible Set -------------------- *)
\* no operation is in progress and the program has not panicked
Quiet == status = "run" /\ todo = Idle

\* one run of updateList by the UI goroutine from state s, the pool
\* preferring the instance ord
Recompute(s, ord) == RunAll(s, "main", <<Op("updateList", 0, FALSE)>>, ord)

\* the UI goroutine runs operation m from state s
After(s, m, ord) == RunAll([s EXCEPT !.notes = <<>>], "main", <<m>>, ord)

(* C1: in every state a reader can observe, the Visible Set is strictly
   ascending by index, so that no index is in it twice, and the binary
   search of searchVisible finds exactly the indices that are in it, each
   with the instance mounted there. *)
C1_VisibleAscending ==
    /\ \A k \in 1..(Len(visible) - 1) : visible[k].id < visible[k + 1].id
    /\ \A j, k \in 1..Len(visible) : visible[j].id = visible[k].id => j = k
    /\ \A id \in -1..(MaxCount + 1) :
          LET c == searchVisible(visible, id)
          IN  /\ c.ok <=> \E k \in 1..Len(visible) : visible[k].id = id
              /\ c.ok => \E k \in 1..Len(visible) : visible[k] = [id |-> id, item |-> c.item]

\* a window of two items or more that starts after item 0, instances recycled
C1_Witness ==
    /\ Len(visible) >= 2
    /\ visible[1].id > 0
    /\ itemPool # {}

(* C5: recomputing twice with the same offset, viewport, count and overrides
   leaves the Visible Set of the first pass, indices and instances, the pool
   as it was and no instance created in the second pass; and from offset 0,
   scrolling to an offset near the end of the content and back to 0 gives
   the index sequence computed for offset 0. *)
C5_Idempotent ==
    Quiet =>
    \A ord \in Prefer(itemPool) :
       LET a == Recompute(Cur, ord)
       IN  a.status = "run" =>
           /\ \A ord2 \in Prefer(a.itemPool) :
                 LET b == Recompute(a, ord2)
                 IN  /\ b.status = "run"
                     /\ b.visible = a.visible
                     /\ b.visibleItemMeasures = a.visibleItemMeasures
                     /\ b.itemPool = a.itemPool
                     /\ b.nItems = a.nItems
           /\ (offset = 0 /\ scrollerOffset = 0) =>
                 \A far \in {contentMinSize(a) - size, contentMinSize(a) - size - 1} :
                    far > 0 =>
                    LET e == After(a, Op("Scrolled", far, 0), ord)
                        z == After(e, Op("Scrolled", 0, 0), ord)
                    IN  /\ z.status = "run"
                        /\ Ids(z.visible) = Ids(a.visible)
                        /\ z.visibleItemMeasures = a.visibleItemMeasures

\* the list scrolled to the end of its content, an instance idle in the pool
C5_Witness ==
    /\ Quiet
    /\ size > 0
    /\ offset > 0
    /\ offset = contentMinSize(Cur) - size
    /\ Len(visible) >= 1
    /\ itemPool # {}

(* C6: the factory is called for an instance to mount only when Obtain
   returned none: getItem creates no instance while the pool holds one, and
   a recompute that created an instance has mounted every instance that was
   idle in the pool when it began. *)
C6_CreateAfterPoolMiss ==
    Quiet =>
    \A ord \in Prefer(itemPool) :
       /\ getItem(Cur, "main", ord).s.nItems > nItems => itemPool = {}
       /\ LET r == Recompute(Cur, ord)
          IN  r.nItems > nItems => itemPool \subseteq Items(r.visible)

\* two instances created, both mounted, none idle
C6_Witness ==
    /\ Quiet
    /\ nItems >= 2
    /\ itemPool = {}
    /\ Cardinality(Items(visible)) = nItems

\* the entries of the Visible Set that hold instance i
Mounted(i) == {k \in 1..Len(visible) : visible[k].item = i}

(* C7: after every completed recompute each instance ever created is either
   idle in the pool and in no entry of the Visible Set, or in exactly one
   entry and not in the pool; the pool and the entries hold created
   instances only. *)
C7_InstanceConservation ==
    Quiet =>
    /\ \A i \in 1..nItems :
          \/ i \in itemPool /\ Mounted(i) = {}
          \/ i \notin itemPool /\ Cardinality(Mounted(i)) = 1
    /\ itemPool \cup Items(visible) \subseteq 1..nItems

\* three instances created, some mounted and some idle
C7_Witness ==
    /\ Quiet
    /\ nItems >= 3
    /\ itemPool # {}
    /\ Len(visible) >= 2

(* C10: on a sized list with Length set, SetItemMeasure with an index outside
   [0, count) changes nothing: the override map, the aggregate content
   extent and the window of the next recompute are what they are without
   the call. *)
C10_OutOfRangeIgnored ==
    (Quiet /\ Length # Nil /\ size > 0) =>
    \A id \in OverrideIds, m \in Measures :
       (id < 0 \/ id >= LengthOf(Cur)) =>
       LET r == After(Cur, Op("SetItemMeasure", id, m), 0)
       IN  /\ r.itemMeasures = itemMeasures
           /\ contentMinSize(r) = contentMinSize(Cur)
           /\ Ids(Recompute(r, 0).visible) = Ids(Recompute(Cur, 0).visible)

(* --------------------- the claims on the selection -------------------- *)
(* C2: the selection holds at most one index; with index a selected,
   Select(b) for an index b of the list other than a leaves exactly b
   selected and fires OnUnselected(a), then OnSelected(b), and no other
   selection notification; no operation fires OnUnselected after
   OnSelected. *)
C2_SelectionExclusive ==
    /\ Len(selected) <= 1
    /\ \A i, j \in 1..Len(notes) :
          (notes[i][1] = "OnSelected" /\ notes[j][1] = "OnUnselected") => j < i
    /\ (Quiet /\ Len(selected) = 1) =>
       \A b \in 0..(LengthOf(Cur) - 1), ord \in Prefer(itemPool) :
          b # selected[1] =>
          LET r == After(Cur, Op("Select", b, 0), ord)
          IN  r.status = "run" =>
              /\ r.selected = <<b>>
              /\ r.notes = << <<"OnUnselected", selected[1]>>, <<"OnSelected", b>> >>

\* Select(b) has replaced the selection of another index
C2_Witness ==
    /\ Quiet
    /\ Len(selected) = 1
    /\ Len(notes) = 2
    /\ notes[1][1] = "OnUnselected"
    /\ notes[1][2] # selected[1]
    /\ notes[2] = <<"OnSelected", selected[1]>>

(* C9: Select(index) with index the sole selection or outside [0, count),
   count 0 when Length is unset, and ScrollTo(index) with index outside
   [0, count), change nothing: the selection, the scroll offset, the Visible
   Set and every other field are as before, and no selection notification
   fires. *)
C9_NoOps ==
    Quiet =>
    \A id \in CallIds, ord \in Prefer(itemPool) :
       LET s0    == [Cur EXCEPT !.notes = <<>>]
           outer == id < 0 \/ id >= LengthOf(Cur)
       IN  /\ (selected = <<id>> \/ outer) => After(Cur, Op("Select", id, 0), ord) = s0
           /\ outer => After(Cur, Op("ScrollTo", id, 0), ord) = s0

\* the last item selected and shown, the list scrolled: Select of that item,
\* and Select and ScrollTo of -1 and of count, are the calls of the claim
C9_Witness ==
    /\ Quiet
    /\ Length = MaxCount
    /\ selected = <<MaxCount - 1>>
    /\ offset > 0
    /\ Len(visible) >= 1

(* ------------------------ the claim on the lock ----------------------- *)
\* the goroutines that hold renderLock
Holders == (IF lockW = "none" THEN {} ELSE {lockW}) \cup lockR

\* goroutine t has a call to make and can make it
Ready(t) == todo[t] # <<>> /\ CanExec(Cur, t, Head(todo[t]))

\* what holds in every state of a program that has not panicked
LockState ==
    /\ "UpdateItem" \notin lockedCalls
    /\ \A t \in Threads :
          /\ lockW = t => (todo[t] # <<>> /\ Head(todo[t]).op = "updateListLocked")
          /\ t \in lockR => (todo[t] # <<>> /\ Head(todo[t]).op = "RefreshItemLocked")
          /\ (todo[t] # <<>> /\ ~Ready(t)) =>
                (Holders # {} /\ t \notin Holders /\ \A u \in Holders : Ready(u))

\* what holds of every step: the window changes under the write lock only,
\* and the call that ends the recompute gives the lock back
LockStep ==
    /\ <<visible, visibleItemMeasures, minItem, off>>' # <<visible, visibleItemMeasures, minItem, off>>
          => lockW \in Threads
    /\ \A t \in Threads :
          (lockW = t /\ todo'[t] # todo[t]) => (lockW' = "none" \/ status' = "panic")

(* C8: the Visible Set is changed only by a goroutine holding the write
   lock; every way out of a recompute gives the lock back (a recompute that
   panics ends the program); UpdateItem is never called by a goroutine that
   holds the lock, for reading or writing; and neither an UpdateItem that
   calls RefreshItem nor a RefreshItem beside a recompute leaves a goroutine
   waiting for a lock that is not given back. *)
C8_LockDiscipline == [](status = "run" => LockState) /\ [][LockStep]_vars

\* a second goroutine waits in RefreshItem for the read lock while the UI
\* goroutine recomputes, after an UpdateItem callback has re-entered
C8_Witness ==
    /\ status = "run"
    /\ lockW = "main"
    /\ todo["bg"] # <<>>
    /\ Head(todo["bg"]).op = "RLock"
    /\ reent

(* -------------------- degenerate geometry and scrolling --------------- *)
(* C11: with a viewport extent of 0 or less a recompute leaves an empty
   window, no extents and nothing mounted, whatever the passes before it
   computed, and it does not fail. *)
C11_DegenerateViewport ==
    (Quiet /\ size <= 0) =>
    \A ord \in Prefer(itemPool) :
       LET a == Recompute(Cur, ord)
       IN  /\ a.status = "run"
           /\ a.visibleItemMeasures = <<>>
           /\ a.visible = <<>>

(* C12: with Length returning 0 the aggregate content extent is exactly 0,
   and a recompute leaves an empty window, creates no instance and has every
   instance that was mounted back in the pool. *)
C12_EmptyList ==
    (Quiet /\ Length = 0) =>
    /\ contentMinSize(Cur) = 0
    /\ \A ord \in Prefer(itemPool) :
          LET a == Recompute(Cur, ord)
          IN  /\ a.status = "run"
              /\ a.visibleItemMeasures = <<>>
              /\ a.visible = <<>>
              /\ a.nItems = nItems
              /\ a.itemPool = itemPool \cup Items(visible)

\* a viewport wide enough to show two items in full
WideSize == 2 * MaxSize + 1

(* C13: ScrollTo(i) with i in [0, count) leaves the scroll offset equal to
   the start offset of item i, the sum over j < i of the effective extent of
   j and one separator; the viewport is the current one or one wide enough
   to show two items. *)
C13_ScrollToOffset ==
    Quiet =>
    \A id \in CallIds, sz \in {size, WideSize}, ord \in Prefer(itemPool) :
       (0 <= id /\ id < LengthOf(Cur)) =>
       LET w == IF sz = size THEN Cur ELSE After(Cur, Op("Resize", sz, 0), ord)
           r == After(w, Op("ScrollTo", id, 0), ord)
       IN  r.status = "run" => r.offset = StartOffset(id)

\* the calls that move the scroll offset
ScrollCalls ==
    {Op("ScrollTo", id, 0) : id \in CallIds}
    \cup {Op("Select", id, 0) : id \in CallIds}
    \cup {Op("ScrollToOffset", o, 0) :
            o \in {-1, ItemMin + Padding, contentMinSize(Cur) - 1, contentMinSize(Cur) + 1}}
    \cup {Op(n, 0, 0) : n \in {"ScrollToStart", "ScrollToEnd", "TypedKeyDown",
                               "TypedKeyUp", "TypedKeySpace"}}

(* C14: on a list with items, a factory and a positive viewport, from a
   scroll offset within [0, aggregate content extent], ScrollTo,
   ScrollToStart, ScrollToEnd, ScrollToOffset, Select and the focus keys
   leave the offset GetScrollOffset reports within those bounds, whatever
   the measure overrides. *)
C14_OffsetClamped ==
    (/\ Quiet /\ Length > 0 /\ CreateItem /\ size > 0
     /\ 0 <= offset /\ offset <= AggregateExtent(LengthOf(Cur))) =>
    \A m \in ScrollCalls, ord \in Prefer(itemPool) :
       LET r == After(Cur, m, ord)
       IN  r.status = "run" =>
              (0 <= r.offset /\ r.offset <= AggregateExtent(LengthOf(Cur)))

(* C15: with CreateItem unset no operation fails: a recompute that needs an
   instance while the pool is empty creates none, skips the slot and ends
   with renderLock released. *)
C15_MissingFactory ==
    ~CreateItem =>
       /\ status = "run"
       /\ nItems = 0
       /\ todo = Idle => lockW = "none"

(* C16: after every recompute with k visible items the layout holds exactly
   max(0, k - 1) divider elements. *)
C16_SeparatorCount ==
    Quiet => separators = Max(0, Len(visible) - 1)

(* ------------------------------ keyboard focus ------------------------ *)
\* the focused index one step from f towards the key's end, unchanged where
\* the step would leave [0, count - 1]
FocusStep(f, key, count) ==
    IF key = "TypedKeyDown" THEN (IF f < count - 1 THEN f + 1 ELSE f)
    ELSE (IF f > 0 THEN f - 1 ELSE f)

(* C17: a KeyDown or KeyUp event moves the focused index by one step inside
   [0, count - 1], count being 0 when Length is unset, and leaves it where it
   is at a boundary; it changes no selection and notifies nobody. *)
C17_KeyNavigation ==
    Quiet =>
    \A key \in {"TypedKeyDown", "TypedKeyUp"}, ord \in Prefer(itemPool) :
       LET r == After(Cur, Op(key, 0, 0), ord)
       IN  r.status = "run" =>
              /\ r.currentFocus = FocusStep(currentFocus, key, LengthOf(Cur))
              /\ r.selected = selected
              /\ r.notes = <<>>

(* ------------------------------ measure overrides --------------------- *)
(* C18: on a list with items and a factory, SetItemMeasure(index, extent)
   with extent equal to the item's effective extent leaves the override map
   as it is and requests no refresh; with any other extent it requests
   one. *)
C18_SetItemMeasure ==
    (Quiet /\ Length > 0 /\ CreateItem) =>
    \A id \in OverrideIds, m \in Measures :
       LET r == SetItemMeasure(Cur, id, m)
       IN  IF m = EffectiveExtent(id)
           THEN r.push = <<>> /\ r.s.itemMeasures = itemMeasures
           ELSE r.push # <<>>

(* --------------------------- the diff of a pass ----------------------- *)
\* the calls that run one recompute from a state whose scroller and list
\* offsets agree
PassCalls ==
    {Op("Scrolled", o, 0) : o \in 0..Max(0, contentMinSize(Cur) - size)}
    \cup {Op("Resize", sz, 0) : sz \in Sizes}
    \cup {Op("Layout", 0, 0), Op("Refresh", 0, 0)}

\* the instances of the entries of vis whose id is not an id of other
Absent(vis, other) ==
    {vis[k].item : k \in {j \in 1..Len(vis) : ~searchVisible(other, vis[j].id).ok}}

(* C19: in a recompute every index of both the previous and the new Visible
   Set keeps its instance, which never passes through the pool; every
   instance whose index left the window is idle in the pool afterwards, and
   nothing else was released; the instances of the new indices come from the
   pool as it was before the pass or from the factory, never from the
   instances this pass releases. *)
C19_DiffStep ==
    (Quiet /\ scrollerOffset = offset) =>
    \A m \in PassCalls, ord \in Prefer(itemPool) :
       LET r    == After(Cur, m, ord)
           gone == Absent(visible, r.visible)
           new  == Absent(r.visible, visible)
       IN  r.status = "run" =>
           /\ \A k \in 1..Len(visible) :
                 LET c == searchVisible(r.visible, visible[k].id)
                 IN  c.ok => (c.item = visible[k].item /\ c.item \notin r.itemPool)
           /\ gone \subseteq r.itemPool
           /\ gone \cap Items(r.visible) = {}
           /\ r.itemPool \ itemPool = gone
           /\ new \subseteq itemPool \cup ((nItems + 1)..r.nItems)

\* a scroll that keeps one index, drops one and brings one in
C19_Witness ==
    /\ Quiet
    /\ scrollerOffset = offset
    /\ \E m \in PassCalls, ord \in Prefer(itemPool) :
          LET r == After(Cur, m, ord)
          IN  /\ r.status = "run"
              /\ Absent(visible, r.visible) # {}
              /\ Absent(r.visible, visible) # {}
              /\ \E k \in 1..Len(visible) : searchVisible(r.visible, visible[k].id).ok

(* ------------------------- the configuration calls -------------------- *)
\* goroutine t runs the calls td to completion as RunAll does: [s, u], the
\* state it leaves and the UpdateItem invocations it made, <<id, instance>>
\* each (setupListItem, lines 761-763)
RECURSIVE RunLog(_, _, _, _)
RunLog(s, t, td, ord) ==
    IF td = <<>> \/ s.status # "run" THEN [s |-> s, u |-> <<>>]
    ELSE IF ~CanExec(s, t, Head(td)) THEN [s |-> [s EXCEPT !.status = "deadlock"], u |-> <<>>]
         ELSE LET m    == Head(td)
                  r    == Exec(s, t, m, [ord |-> ord, re |-> Nil])
                  rest == RunLog(r.s, t, r.push \o Tail(td), ord)
              IN  [s |-> rest.s,
                   u |-> (IF m.op = "setupListItem" THEN << <<m.b, m.a>> >> ELSE <<>>)
                         \o rest.u]

\* how many entries of the sequence u equal e
Times(u, e) == Cardinality({k \in 1..Len(u) : u[k] = e})

\* the pass that left state s went past the test of lines 806-809
Builds(s) == Len(s.visibleItemMeasures) > 0 \/ LengthOf(s) = 0

(* C20: a recompute started by a scroll offset change, Resize or Layout
   invokes UpdateItem once for each index of the new Visible Set that was
   not in the previous one and never for an index that stayed; a recompute
   started by Refresh invokes it once for every index of the new Visible
   Set; every invocation passes the instance mounted at its index. A
   recompute is a pass that builds a Visible Set: one that finds no extent
   to show on a list with items returns before it builds any. *)
C20_ConfigurationModes ==
    (Quiet /\ scrollerOffset = offset) =>
    \A m \in PassCalls, ord \in Prefer(itemPool) :
       LET l == RunLog([Cur EXCEPT !.notes = <<>>], "main", <<m>>, ord)
           r == l.s
           u == l.u
       IN  (r.status = "run" /\ Builds(r)) =>
           /\ \A k \in 1..Len(r.visible) :
                 Times(u, <<r.visible[k].id, r.visible[k].item>>) =
                    IF m.op = "Refresh" \/ ~searchVisible(visible, r.visible[k].id).ok
                    THEN 1 ELSE 0
           /\ \A j \in 1..Len(u) :
                 \E k \in 1..Len(r.visible) :
                    u[j] = <<r.visible[k].id, r.visible[k].item>>

\* a scroll that keeps one index and brings one in, and a Refresh of a
\* window of two items
C20_Witness ==
    /\ Quiet
    /\ scrollerOffset = offset
    /\ Len(visible) >= 2
    /\ \E m \in PassCalls, ord \in Prefer(itemPool) :
          LET l == RunLog([Cur EXCEPT !.notes = <<>>], "main", <<m>>, ord)
              r == l.s
              u == l.u
          IN  /\ r.status = "run"
              /\ m.op = "Scrolled"
              /\ Len(u) >= 1
              /\ \E k \in 1..Len(visible) : searchVisible(r.visible, visible[k].id).ok
    /\ \E ord \in Prefer(itemPool) :
          Len(RunLog([Cur EXCEPT !.notes = <<>>], "main",
                     <<Op("Refresh", 0, 0)>>, ord).u) >= 2

(* --------------------------- callbacks and the lock ------------------- *)
(* C21: no user callback (Length, CreateItem, UpdateItem, OnSelected,
   OnUnselected) is invoked by a goroutine that holds renderLock. *)
C21_NoUserCodeUnderLock == lockedCalls = {}

(* ------------------------------ index range --------------------------- *)
(* C22: a recompute that builds a Visible Set leaves in it only indices of
   [0, count), count being what Length returns during that pass, and every
   UpdateItem invocation of a resize, scroll, layout, Refresh or RefreshItem
   carries an index of [0, count). *)
C22_IndicesInRange ==
    Quiet =>
    \A m \in (PassCalls \ {Op("Scrolled", offset, 0)})
              \cup {Op("RefreshItem", id, 0) : id \in CallIds},
       ord \in Prefer(itemPool) :
       LET l == RunLog([Cur EXCEPT !.notes = <<>>], "main", <<m>>, ord)
       IN  (l.s.status = "run" /\ Builds(l.s)) =>
           /\ \A k \in 1..Len(l.s.visible) :
                 0 <= l.s.visible[k].id /\ l.s.visible[k].id < LengthOf(Cur)
           /\ \A j \in 1..Len(l.u) : 0 <= l.u[j][1] /\ l.u[j][1] < LengthOf(Cur)

(* ----------------------- RefreshItem beside a recompute --------------- *)
(* C23: no goroutine is about to configure an instance for an index while
   that instance is mounted at another index: setupListItem(inst, i) runs
   only while no entry (j, inst) with j # i is in the Visible Set. *)
C23_ConfiguredWhereMounted ==
    status = "run" =>
    \A t \in Threads :
       (todo[t] # <<>> /\ Head(todo[t]).op = "setupListItem") =>
       \A k \in 1..Len(visible) :
          visible[k].item = Head(todo[t]).a => visible[k].id = Head(todo[t]).b

(* ----------------------- the two paths of the calculator -------------- *)
(* C24: for count > 0, viewport > 0 and a scroll offset within the content,
   a non-empty override map that leaves every item of [0, count) at the
   default extent gives the first visible index and the number of visible
   items that the empty map gives for the same count, viewport, separator
   and offset. *)
C24_PathsAgree ==
    (/\ Calculated /\ Length > 0 /\ size > 0 /\ offset \in 0..AggregateExtent(Length)
     /\ DOMAIN itemMeasures # {}
     /\ \A i \in DOMAIN itemMeasures : i >= Length \/ itemMeasures[i] = itemMin) =>
    LET u == calculateVisibleItemMeasures(itemMin, Length, padding, offset, size,
                                          NoMeasures, <<>>)
    IN  /\ minItem = u.minItem
        /\ Len(visibleItemMeasures) = Len(u.measures)

=============================================================================
